---- MODULE Spec2Model ----
(***************************************************************************)
(* A model of src/main.py: the FastAPI application with its pydantic       *)
(* models (HairColor, Location, Person, LoginOut), its eight path          *)
(* operations and the module-level list `persons`.                         *)
(*                                                                         *)
(* A request goes through the phases FastAPI gives it: it is received,     *)
(* its declared parameters are bound and validated (a failure answers 422  *)
(* and the path operation function is not called), the path operation      *)
(* function runs, and its return value is serialised through the           *)
(* response_model.  Text is modelled as a sequence of one-character        *)
(* strings, so that lengths, integer literals, dates, e-mail addresses and *)
(* URLs are parsed rather than assumed.                                    *)
(*                                                                         *)
(* The source uses the pydantic 1 interface (Config.schema_extra,          *)
(* Field(example=...)), so validation is that of pydantic 1: a str field   *)
(* takes an int by str(), an int field takes a str by int(), every field   *)
(* of a model is validated and every failure reported.  JSON numbers with  *)
(* a fraction and dates given as timestamps are not among the payloads.    *)
(***************************************************************************)
EXTENDS Integers, Sequences, FiniteSets, TLC

(* ------------------------------------------------------------------ *)
(* Bounds of the model                                                 *)
(* ------------------------------------------------------------------ *)

\* Number of requests that may be in flight at the same time.
NumReq == 2

\* Largest number of files in one upload.
MaxFiles == 2

(* ------------------------------------------------------------------ *)
(* Numbers the source states                                           *)
(* ------------------------------------------------------------------ *)

LocCityMax == 86
LocCountryMin == 4
LocCountryMax == 56
NameMax == 50
AgeMax == 115
PasswordMin == 8
LoginOutUsernameMax == 20
ContactNameMax == 20
MessageMin == 20
MessageMax == 400
BytesPerKb == 1024
HTTP_200_OK == 200
HTTP_201_CREATED == 201
HTTP_404_NOT_FOUND == 404
HTTP_422_UNPROCESSABLE == 422
HTTP_500_INTERNAL == 500

(* ------------------------------------------------------------------ *)
(* Text                                                                *)
(* ------------------------------------------------------------------ *)

Digits == {"0", "1", "2", "3", "4", "5", "6", "7", "8", "9"}

DigitVal(c) ==
    CASE c = "0" -> 0 [] c = "1" -> 1 [] c = "2" -> 2 [] c = "3" -> 3
      [] c = "4" -> 4 [] c = "5" -> 5 [] c = "6" -> 6 [] c = "7" -> 7
      [] c = "8" -> 8 [] c = "9" -> 9

DigitChar(d) ==
    CASE d = 0 -> "0" [] d = 1 -> "1" [] d = 2 -> "2" [] d = 3 -> "3"
      [] d = 4 -> "4" [] d = 5 -> "5" [] d = 6 -> "6" [] d = 7 -> "7"
      [] d = 8 -> "8" [] d = 9 -> "9"

Lower == {"a", "b", "c", "d", "e", "f", "g", "h", "i", "j", "k", "l", "m",
          "n", "o", "p", "q", "r", "s", "t", "u", "v", "w", "x", "y", "z"}

\* The text made of n copies of the character c.
Rep(c, n) == [i \in 1..n |-> c]

AllIn(s, cs) == \A i \in 1..Len(s) : s[i] \in cs

\* The positions of the character c in s, and the first of them (0: none).
FirstPos(s, c) ==
    IF \E i \in 1..Len(s) : s[i] = c
    THEN CHOOSE i \in 1..Len(s) : s[i] = c /\ \A j \in 1..(i - 1) : s[j] # c
    ELSE 0

\* str.split(c): the pieces of s between the occurrences of c.
RECURSIVE Split(_, _)
Split(s, c) ==
    LET p == FirstPos(s, c)
    IN  IF p = 0 THEN <<s>>
        ELSE <<SubSeq(s, 1, p - 1)>> \o Split(SubSeq(s, p + 1, Len(s)), c)

\* The value of a text of decimal digits.
RECURSIVE DigitsValue(_)
DigitsValue(s) ==
    IF s = <<>> THEN 0
    ELSE DigitsValue(SubSeq(s, 1, Len(s) - 1)) * 10 + DigitVal(s[Len(s)])

\* The decimal digits of a natural number.
RECURSIVE NatToStr(_)
NatToStr(n) ==
    IF n < 10 THEN <<DigitChar(n)>>
    ELSE NatToStr(n \div 10) \o <<DigitChar(n % 10)>>

\* str(n) of Python for an int.
IntToStr(n) == IF n < 0 THEN <<"-">> \o NatToStr(0 - n) ELSE NatToStr(n)

\* n written with at least w digits, as "%0wd" writes it.
ZeroPad(n, w) ==
    LET d == NatToStr(n)
    IN  IF Len(d) >= w THEN d ELSE Rep("0", w - Len(d)) \o d

\* int(s) of Python accepts an optional sign followed by decimal digits.
IntBody(s) == IF Len(s) > 0 /\ s[1] \in {"-", "+"} THEN Tail(s) ELSE s

IsIntLiteral(s) == Len(IntBody(s)) > 0 /\ AllIn(IntBody(s), Digits)

ParseInt(s) ==
    IF Len(s) > 0 /\ s[1] = "-" THEN 0 - DigitsValue(IntBody(s))
    ELSE DigitsValue(IntBody(s))

(* ------------------------------------------------------------------ *)
(* Values: what a request carries and what a bound parameter holds     *)
(* ------------------------------------------------------------------ *)

\* A value is a record of a kind k, a text s and a number n.  Raw kinds:
\* "absent" (the key or parameter is missing), "null", "str", "int" and
\* "bool" (n is 1 for true).  Bound kinds add "none", "enum", "url",
\* "date" (n is year*10000 + month*100 + day) and "email".
Val(k, s, n) == [k |-> k, s |-> s, n |-> n]

Absent == Val("absent", <<>>, 0)
Null == Val("null", <<>>, 0)
None == Val("none", <<>>, 0)
StrV(s) == Val("str", s, 0)
IntV(n) == Val("int", <<>>, n)
BoolV(b) == Val("bool", <<>>, IF b THEN 1 ELSE 0)

\* The outcome of validating one field: the bound value, or the kind of
\* the first constraint that failed.
Ok(v) == [ok |-> TRUE, v |-> v, err |-> "none"]
Fail(kind) == [ok |-> FALSE, v |-> None, err |-> kind]

(* ------------------------------------------------------------------ *)
(* Constraints of the fields                                           *)
(* ------------------------------------------------------------------ *)

\* pydantic's str validator: a str is taken as it is, an int or a bool is
\* written out with str(); null and a missing key are not text.
CoerceStr(raw) ==
    CASE raw.k = "str" -> Ok(StrV(raw.s))
      [] raw.k = "int" -> Ok(StrV(IntToStr(raw.n)))
      [] raw.k = "bool" -> Ok(StrV(IF raw.n = 1 THEN <<"T", "r", "u", "e">>
                                   ELSE <<"F", "a", "l", "s", "e">>))
      [] raw.k = "absent" -> Fail("MissingField")
      [] OTHER -> Fail("TypeCoercionError")

\* pydantic's int validator: an int is taken as it is, a bool is 0 or 1,
\* a str goes through int().
CoerceInt(raw) ==
    CASE raw.k = "int" -> Ok(IntV(raw.n))
      [] raw.k = "bool" -> Ok(IntV(raw.n))
      [] raw.k = "str" -> IF IsIntLiteral(raw.s) THEN Ok(IntV(ParseInt(raw.s)))
                          ELSE Fail("TypeCoercionError")
      [] raw.k = "absent" -> Fail("MissingField")
      [] OTHER -> Fail("TypeCoercionError")

\* min_length / max_length of a str field (max = -1: no max_length).
LengthOk(min, max, s) == Len(s) >= min /\ (max < 0 \/ Len(s) <= max)

\* A required str field with length bounds.
StrField(raw, min, max) ==
    LET c == CoerceStr(raw)
    IN  IF ~c.ok THEN c
        ELSE IF LengthOk(min, max, c.v.s) THEN c
        ELSE Fail("LengthOutOfRange")

\* Person.age: gt=0, le=115.
AgeInRangeInclusiveZero(n) == n >= 0 /\ n <= AgeMax

AgeInRange(n) == n > 0 /\ n <= AgeMax

AgeField(raw) ==
    LET c == CoerceInt(raw)
    IN  IF ~c.ok THEN c
        ELSE IF AgeInRange(c.v.n) THEN c
        ELSE Fail("ValueOutOfRange")

\* The values of the enumeration HairColor.
HairColor == {<<"w", "h", "i", "t", "e">>, <<"b", "r", "o", "w", "n">>,
              <<"b", "l", "a", "c", "k">>, <<"b", "l", "o", "n", "d", "e">>,
              <<"r", "e", "d", "h", "e", "a", "d">>}

\* Person.hair_color: Optional[HairColor], default None.
HairColorField(raw) ==
    CASE raw.k \in {"absent", "null"} -> Ok(None)
      [] raw.k = "str" /\ raw.s \in HairColor -> Ok(Val("enum", raw.s, 0))
      [] OTHER -> Fail("InvalidEnumValue")

\* The texts pydantic's bool validator reads as true and as false.
BoolTrueText == {<<"1">>, <<"o", "n">>, <<"t">>, <<"t", "r", "u", "e">>,
                 <<"y">>, <<"y", "e", "s">>}

BoolFalseText == {<<"0">>, <<"o", "f", "f">>, <<"f">>,
                  <<"f", "a", "l", "s", "e">>, <<"n">>, <<"n", "o">>}

\* Person.is_married: Optional[bool], default None.
IsMarriedField(raw) ==
    CASE raw.k \in {"absent", "null"} -> Ok(None)
      [] raw.k = "bool" -> Ok(BoolV(raw.n = 1))
      [] raw.k = "int" /\ raw.n \in {0, 1} -> Ok(BoolV(raw.n = 1))
      [] raw.k = "str" /\ raw.s \in BoolTrueText -> Ok(BoolV(TRUE))
      [] raw.k = "str" /\ raw.s \in BoolFalseText -> Ok(BoolV(FALSE))
      [] OTHER -> Fail("TypeCoercionError")

\* AnyUrl: a scheme of a letter followed by at least one more scheme
\* character, "://", and a host that is not empty.
SchemeChars == Lower \cup Digits \cup {"+", "-", "."}

HostChars == Lower \cup Digits \cup {"-", "."}

UrlHost(s) ==
    LET p == FirstPos(s, ":")
        rest == SubSeq(s, p + 3, Len(s))
        q == FirstPos(rest, "/")
    IN  IF q = 0 THEN rest ELSE SubSeq(rest, 1, q - 1)

IsUrl(s) ==
    LET p == FirstPos(s, ":")
    IN  /\ p >= 3
        /\ s[1] \in Lower
        /\ AllIn(SubSeq(s, 1, p - 1), SchemeChars)
        /\ Len(s) >= p + 2
        /\ s[p + 1] = "/"
        /\ s[p + 2] = "/"
        /\ Len(UrlHost(s)) > 0
        /\ AllIn(UrlHost(s), HostChars)

\* Person.personal_website: Optional[AnyUrl], default None.
WebsiteField(raw) ==
    IF raw.k \in {"absent", "null"} THEN Ok(None)
    ELSE LET c == CoerceStr(raw)
         IN  IF ~c.ok THEN c
             ELSE IF IsUrl(c.v.s) THEN Ok(Val("url", c.v.s, 0))
             ELSE Fail("InvalidFormat")

\* EmailStr: one "@", a local part of permitted characters that neither
\* starts nor ends with a dot nor holds two dots in a row, and a domain
\* of at least two labels, none empty, none starting or ending with "-".
LocalChars == Lower \cup Digits \cup {".", "_", "-", "+"}

LabelChars == Lower \cup Digits \cup {"-"}

IsLabel(l) ==
    /\ Len(l) > 0
    /\ AllIn(l, LabelChars)
    /\ l[1] # "-"
    /\ l[Len(l)] # "-"

IsEmail(s) ==
    LET parts == Split(s, "@")
    IN  /\ Len(parts) = 2
        /\ LET local == parts[1]
               labels == Split(parts[2], ".")
           IN  /\ Len(local) > 0
               /\ AllIn(local, LocalChars)
               /\ \A piece \in {Split(local, ".")[i] :
                                 i \in 1..Len(Split(local, "."))} : Len(piece) > 0
               /\ Len(labels) >= 2
               /\ \A i \in 1..Len(labels) : IsLabel(labels[i])

\* An EmailStr field, required.
EmailField(raw) ==
    LET c == CoerceStr(raw)
    IN  IF ~c.ok THEN c
        ELSE IF IsEmail(c.v.s) THEN Ok(Val("email", c.v.s, 0))
        ELSE Fail("InvalidFormat")

\* The date on which requests are validated (date.today()).
Today == <<2026, 11, 2>>

DateNumber(y, m, d) == y * 10000 + m * 100 + d

IsLeap(y) == (y % 4 = 0 /\ y % 100 # 0) \/ y % 400 = 0

DaysInMonth(y, m) ==
    CASE m \in {1, 3, 5, 7, 8, 10, 12} -> 31
      [] m \in {4, 6, 9, 11} -> 30
      [] m = 2 -> IF IsLeap(y) THEN 29 ELSE 28
      [] OTHER -> 0

\* pydantic reads a date as four digits of year, "-", one or two digits
\* of month, "-", one or two digits of day, and the date must exist.
IsDateText(s) ==
    LET parts == Split(s, "-")
    IN  /\ Len(parts) = 3
        /\ Len(parts[1]) = 4
        /\ Len(parts[2]) \in {1, 2}
        /\ Len(parts[3]) \in {1, 2}
        /\ \A i \in 1..3 : AllIn(parts[i], Digits)
        /\ DigitsValue(parts[1]) >= 1
        /\ DigitsValue(parts[3]) >= 1
        /\ DigitsValue(parts[3]) <=
               DaysInMonth(DigitsValue(parts[1]), DigitsValue(parts[2]))

ParseDate(s) ==
    LET parts == Split(s, "-")
    IN  DateNumber(DigitsValue(parts[1]), DigitsValue(parts[2]),
                   DigitsValue(parts[3]))

\* PastDate: strictly before today.
IsPast(n) == n < DateNumber(Today[1], Today[2], Today[3])

\* Person.date_of_birth: PastDate, required.
DateOfBirthField(raw) ==
    CASE raw.k = "absent" -> Fail("MissingField")
      [] raw.k = "str" ->
           IF ~IsDateText(raw.s) THEN Fail("InvalidFormat")
           ELSE IF IsPast(ParseDate(raw.s))
                THEN Ok(Val("date", <<>>, ParseDate(raw.s)))
           ELSE Fail("DateNotInPast")
      [] OTHER -> Fail("TypeCoercionError")

\* date.isoformat(): YYYY-MM-DD.
IsoFormat(n) ==
    ZeroPad(n \div 10000, 4) \o <<"-">> \o ZeroPad((n \div 100) % 100, 2)
        \o <<"-">> \o ZeroPad(n % 100, 2)

(* ------------------------------------------------------------------ *)
(* The models: Location, Person, LoginOut                              *)
(* ------------------------------------------------------------------ *)

\* The fields of the models, in the order of their declaration.
LocationFields == <<"city", "state", "country">>

PersonFields == <<"first_name", "last_name", "age", "hair_color",
                  "is_married", "personal_website", "date_of_birth",
                  "email", "password">>

Range(seq) == {seq[i] : i \in 1..Len(seq)}

\* class Location: the validation of one field.
LocationField(name, raw) ==
    CASE name = "city" -> StrField(raw, 1, LocCityMax)
      [] name = "state" -> StrField(raw, 1, LocCityMax)
      [] name = "country" -> StrField(raw, LocCountryMin, LocCountryMax)

\* class Person: the validation of one field.
PersonField(name, raw) ==
    CASE name = "first_name" -> StrField(raw, 1, NameMax)
      [] name = "last_name" -> StrField(raw, 1, NameMax)
      [] name = "age" -> AgeField(raw)
      [] name = "hair_color" -> HairColorField(raw)
      [] name = "is_married" -> IsMarriedField(raw)
      [] name = "personal_website" -> WebsiteField(raw)
      [] name = "date_of_birth" -> DateOfBirthField(raw)
      [] name = "email" -> EmailField(raw)
      [] name = "password" -> StrField(raw, PasswordMin, -1)

\* class LoginOut: username has max_length=20 and no min_length.
LoginOutUsername(raw) == StrField(raw, 0, LoginOutUsernameMax)

\* One entry of a validation error: where the value was looked for and the
\* kind of the violation.
Err(loc, kind) == [loc |-> loc, kind |-> kind]

\* A body object is either missing or a JSON object, f: key -> raw value.
NoObj == [k |-> "absent", f |-> <<>>]
Obj(f) == [k |-> "obj", f |-> f]

\* pydantic validates every field of a model and reports every field that
\* failed, in declaration order, each with its first failed constraint;
\* res: field -> the outcome of its validation.
FieldErrors(fields, res, loc) ==
    LET all == [i \in 1..Len(fields) |-> [name |-> fields[i], r |-> res[fields[i]]]]
        bad == SelectSeq(all, LAMBDA e : ~e.r.ok)
    IN  [i \in 1..Len(bad) |-> Err(loc \o <<bad[i].name>>, bad[i].r.err)]

\* The instance of a model that validation builds: field -> bound value.
FieldValues(res) == [name \in DOMAIN res |-> res[name].v]

\* Person and Location as body parameters.
PersonResults(obj) ==
    [name \in Range(PersonFields) |-> PersonField(name, obj.f[name])]

PersonErrorsFirstOnly(obj, loc) ==
    IF obj.k # "obj" THEN <<Err(loc, "MissingField")>>
    ELSE LET all == FieldErrors(PersonFields, PersonResults(obj), loc)
         IN  IF all = <<>> THEN <<>> ELSE <<all[1]>>

PersonErrors(obj, loc) ==
    IF obj.k # "obj" THEN <<Err(loc, "MissingField")>>
    ELSE FieldErrors(PersonFields, PersonResults(obj), loc)

PersonValue(obj) == FieldValues(PersonResults(obj))

LocationResults(obj) ==
    [name \in Range(LocationFields) |-> LocationField(name, obj.f[name])]

LocationErrors(obj, loc) ==
    IF obj.k # "obj" THEN <<Err(loc, "MissingField")>>
    ELSE FieldErrors(LocationFields, LocationResults(obj), loc)

LocationValue(obj) == FieldValues(LocationResults(obj))

(* ------------------------------------------------------------------ *)
(* Requests and the binding of their parameters                        *)
(* ------------------------------------------------------------------ *)

\* The path operations of the application.  The source names both GET
\* operations show_person; the one on /person/detail is show_person_query
\* here.
Endpoints == {"home", "create_person", "show_person_query", "show_person",
              "update_person", "login", "contact", "post_image"}

\* The names of the form fields of /login and /contact.
LoginForm == <<"username", "password">>

ContactForm == <<"first_name", "last_name", "email", "message">>

NoForm == [name \in Range(LoginForm) \cup Range(ContactForm) |-> Absent]

\* A request: the operation its method and path route to, the text of the
\* {person_id} path segment, the body objects, the query parameters, the
\* form fields, the User-Agent header, the ads cookie, the uploaded files.
Request(ep) ==
    [ep |-> ep, seg |-> <<>>, person |-> NoObj, location |-> NoObj,
     qname |-> Absent, qage |-> Absent, form |-> NoForm,
     user_agent |-> Absent, ads |-> Absent, files |-> <<>>]

FieldErr(res, loc) == IF res.ok THEN <<>> ELSE <<Err(loc, res.err)>>

\* person_id: int = Path(..., gt=0).
PersonId(seg) ==
    LET c == CoerceInt(StrV(seg))
    IN  IF ~c.ok THEN Fail("TypeCoercionError")
        ELSE IF c.v.n > 0 THEN c
        ELSE Fail("ValueOutOfRange")

\* name: Optional[str] = Query(None, min_length=1, max_length=50).
QueryName(raw) == IF raw.k = "absent" THEN Ok(None) ELSE StrField(raw, 1, NameMax)

\* age: int = Query(...).
QueryAge(raw) == CoerceInt(raw)

\* FastAPI takes an empty form field for a missing one.
FormRaw(raw) == IF raw.k = "str" /\ raw.s = <<>> THEN Absent ELSE raw

\* The form fields of login: username and password, str = Form(...).
LoginField(name, raw) == StrField(FormRaw(raw), 0, -1)

\* The form fields of contact.
ContactField(name, raw) ==
    CASE name = "first_name" -> StrField(FormRaw(raw), 1, ContactNameMax)
      [] name = "last_name" -> StrField(FormRaw(raw), 1, ContactNameMax)
      [] name = "email" -> EmailField(FormRaw(raw))
      [] name = "message" -> StrField(FormRaw(raw), MessageMin, MessageMax)

\* Optional[str] = Header(default=None) and Optional[str] = Cookie(default=None).
OptionalStr(raw) == IF raw.k = "absent" THEN Ok(None) ELSE CoerceStr(raw)

LoginResults(form) == [name \in Range(LoginForm) |-> LoginField(name, form[name])]

ContactResults(form) ==
    [name \in Range(ContactForm) |-> ContactField(name, form[name])]

\* images: List[UploadFile] = File(...).
ImagesErrors(files) ==
    IF files = <<>> THEN <<Err(<<"body", "images">>, "MissingField")>> ELSE <<>>

\* Every violation of the declared parameters of the operation: the path,
\* the query, the header and the cookie first, the body and the form last;
\* every parameter is looked at, none is skipped after a failure.
BindErrors(q) ==
    CASE q.ep = "home" -> <<>>
      [] q.ep = "create_person" -> PersonErrors(q.person, <<"body">>)
      [] q.ep = "show_person_query" ->
           FieldErr(QueryName(q.qname), <<"query", "name">>)
             \o FieldErr(QueryAge(q.qage), <<"query", "age">>)
      [] q.ep = "show_person" ->
           FieldErr(PersonId(q.seg), <<"path", "person_id">>)
      [] q.ep = "update_person" ->
           FieldErr(PersonId(q.seg), <<"path", "person_id">>)
             \o PersonErrors(q.person, <<"body", "person">>)
             \o LocationErrors(q.location, <<"body", "location">>)
      [] q.ep = "login" ->
           FieldErrors(LoginForm, LoginResults(q.form), <<"body">>)
      [] q.ep = "contact" ->
           FieldErr(OptionalStr(q.user_agent), <<"header", "user-agent">>)
             \o FieldErr(OptionalStr(q.ads), <<"cookie", "ads">>)
             \o FieldErrors(ContactForm, ContactResults(q.form), <<"body">>)
      [] q.ep = "post_image" -> ImagesErrors(q.files)

\* The arguments the path operation function is called with.
NoArgs ==
    [person_id |-> 0, person |-> <<>>, location |-> <<>>, name |-> None,
     age |-> None, form |-> <<>>, user_agent |-> None, ads |-> None,
     images |-> <<>>]

BoundArgs(q) ==
    CASE q.ep = "home" -> NoArgs
      [] q.ep = "create_person" ->
           [NoArgs EXCEPT !.person = PersonValue(q.person)]
      [] q.ep = "show_person_query" ->
           [NoArgs EXCEPT !.name = QueryName(q.qname).v,
                          !.age = QueryAge(q.qage).v]
      [] q.ep = "show_person" ->
           [NoArgs EXCEPT !.person_id = PersonId(q.seg).v.n]
      [] q.ep = "update_person" ->
           [NoArgs EXCEPT !.person_id = PersonId(q.seg).v.n,
                          !.person = PersonValue(q.person),
                          !.location = LocationValue(q.location)]
      [] q.ep = "login" ->
           [NoArgs EXCEPT !.form = FieldValues(LoginResults(q.form))]
      [] q.ep = "contact" ->
           [NoArgs EXCEPT
               !.form = FieldValues(ContactResults(q.form)),
               !.user_agent = OptionalStr(q.user_agent).v,
               !.ads = OptionalStr(q.ads).v]
      [] q.ep = "post_image" -> [NoArgs EXCEPT !.images = q.files]

(* ------------------------------------------------------------------ *)
(* Responses                                                           *)
(* ------------------------------------------------------------------ *)

\* jsonable_encoder: None becomes null, a member of an Enum its value, a
\* URL and an e-mail address their text, a date its isoformat().
JsonEncode(v) ==
    CASE v.k = "none" -> Null
      [] v.k \in {"enum", "url", "email"} -> StrV(v.s)
      [] v.k = "date" -> StrV(IsoFormat(v.n))
      [] OTHER -> v

\* A JSON object is a sequence of entries, in the order of insertion.
Entry(key, val) == [key |-> key, val |-> val]

Keys(d) == [i \in 1..Len(d) |-> d[i].key]

HasKey(d, key) == \E i \in 1..Len(d) : d[i].key = key

Get(d, key) == d[CHOOSE i \in 1..Len(d) : d[i].key = key].val

\* dict(model): the fields of the instance in declaration order.
Dict(inst, fields) == [i \in 1..Len(fields) |-> Entry(fields[i], inst[fields[i]])]

\* d.update(e): a key of e that d holds keeps its place and takes e's
\* value, the other keys of e are appended in e's order.
DictUpdateReplacing(d, e) == e

DictUpdate(d, e) ==
    [i \in 1..Len(d) |->
        IF HasKey(e, d[i].key) THEN Entry(d[i].key, Get(e, d[i].key)) ELSE d[i]]
      \o SelectSeq(e, LAMBDA x : ~HasKey(d, x.key))

EncodeDict(d) == [i \in 1..Len(d) |-> Entry(d[i].key, JsonEncode(d[i].val))]

\* Serialisation through response_model with response_model_exclude:
\* the fields of the model in declaration order without the excluded
\* ones, encoded; `src` is the instance the function returned, as it is
\* after the serialisation.
ShapeLeak(inst, fields, exclude) ==
    [out |-> EncodeDict(Dict(inst, fields)), src |-> inst]

ShapePop(inst, fields, exclude) ==
    [out |-> EncodeDict(SelectSeq(Dict(inst, fields),
                                  LAMBDA x : x.key \notin exclude)),
     src |-> [name \in DOMAIN inst |->
                IF name \in exclude THEN None ELSE inst[name]]]

Shape(inst, fields, exclude) ==
    [out |-> EncodeDict(SelectSeq(Dict(inst, fields),
                                  LAMBDA x : x.key \notin exclude)),
     src |-> inst]

\* round(x, ndigits=2) of a quotient num/den that a float holds exactly,
\* in hundredths: the nearest hundredth, a tie going to the even one.
RoundHundredthsDown(num, den) == (num * 100) \div den

RoundHundredths(num, den) ==
    LET q == (num * 100) \div den
        r == (num * 100) % den
    IN  IF 2 * r < den THEN q
        ELSE IF 2 * r > den THEN q + 1
        ELSE IF q % 2 = 0 THEN q ELSE q + 1

\* The entry of post_image for one uploaded file.
ImageInfo(image) ==
    [filename |-> image.filename, Format |-> image.content_type,
     Size |-> RoundHundredths(image.length, BytesPerKb)]

\* A response: the status, the phase that produced it ("bind" or
\* "handler"), what the body is ("map", "value", "list", "errors",
\* "detail", "none"), the body, the detail of an HTTPException and the
\* exception that escaped the path operation function, if one did.
Response(status, phase, kind, body) ==
    [status |-> status, phase |-> phase, kind |-> kind, body |-> body,
     detail |-> "", raised |-> "none"]

NoResponse == Response(0, "none", "none", <<>>)

NotFoundDetail == "This person does not exist :("

ExistsMessage == <<"T", "h", "i", "s", " ", "p", "e", "r", "s", "o", "n", " ",
                   "e", "x", "i", "s", "t", "s", "!">>

\* The key of {name: age} in JSON: the name, or null for None.
JsonKey(v) == IF v.k = "none" THEN <<"n", "u", "l", "l">> ELSE v.s

(* ------------------------------------------------------------------ *)
(* The requests the model sends                                        *)
(* ------------------------------------------------------------------ *)

\* The examples the source gives for Person and Location.
ExamplePerson ==
    [first_name |-> StrV(<<"D", "a", "n", "i", "e", "l">>), last_name |-> StrV(<<"S", "a", "l", "m", "e", "r", "o", "n">>),
     age |-> IntV(19), hair_color |-> StrV(<<"b", "l", "a", "c", "k">>),
     is_married |-> BoolV(FALSE),
     personal_website |-> StrV(<<"h", "t", "t", "p", "s", ":", "/", "/", "w", "w", "w", ".", "g", "o", "o", "g", "l", "e", ".", "c", "o", "m", "/">>),
     date_of_birth |-> StrV(<<"2", "0", "0", "0", "-", "0", "1", "-", "0", "1">>),
     email |-> StrV(<<"m", "a", "i", "l", "@", "s", "a", "l", "m", "e", "r", "o", "n", ".", "c", "o", "m">>),
     password |-> StrV(<<"1", "2", "3", "4", "5", "6", "7", "8">>)]

ExampleLocation ==
    [city |-> StrV(<<"D", "e", "t", "r", "o", "i", "t">>), state |-> StrV(<<"M", "i", "c", "h", "i", "g", "a", "n">>),
     country |-> StrV(<<"U", "n", "i", "t", "e", "d", " ", "S", "t", "a", "t", "e", "s">>)]

\* Other values a Person payload may carry in a field.
PersonAlt(name) ==
    CASE name = "first_name" ->
           {StrV(<<>>), StrV(Rep("a", NameMax)), StrV(Rep("a", NameMax + 1)),
            Absent}
      [] name = "last_name" -> {StrV(<<>>), StrV(Rep("b", NameMax + 1))}
      [] name = "age" ->
           {IntV(-1), IntV(0), IntV(1), IntV(AgeMax), IntV(AgeMax + 1),
            StrV(<<"1", "1", "6">>), StrV(<<"x">>), Absent}
      [] name = "hair_color" ->
           {Absent, Null, StrV(<<"w", "h", "i", "t", "e">>), StrV(<<"g", "r", "e", "e", "n">>), StrV(<<"B", "l", "a", "c", "k">>)}
      [] name = "is_married" -> {Absent, BoolV(TRUE), StrV(<<"m", "a", "y", "b", "e">>)}
      [] name = "personal_website" -> {Absent, StrV(<<"g", "o", "o", "g", "l", "e", ".", "c", "o", "m">>)}
      [] name = "date_of_birth" ->
           {StrV(<<"2", "0", "2", "6", "-", "1", "1", "-", "0", "1">>), StrV(<<"2", "0", "2", "6", "-", "1", "1", "-", "0", "2">>), StrV(<<"2", "0", "2", "7", "-", "0", "1", "-", "0", "1">>),
            StrV(<<"1", "9", "9", "9", "-", "2", "-", "3">>), StrV(<<"2", "0", "0", "1", "-", "0", "2", "-", "2", "9">>), Absent}
      [] name = "email" -> {StrV(<<"m", "a", "i", "l">>), StrV(<<"a", "@", "b">>), Absent}
      [] name = "password" ->
           {StrV(Rep("p", PasswordMin - 1)), StrV(Rep("p", PasswordMin + 1)),
            Absent}

LocationAlt(name) ==
    CASE name = "city" -> {StrV(<<>>), StrV(Rep("c", LocCityMax + 1)), Absent}
      [] name = "state" -> {StrV(Rep("s", LocCityMax)), Absent}
      [] name = "country" ->
           {StrV(<<"U", "S", "A">>), StrV(Rep("u", LocCountryMax)),
            StrV(Rep("u", LocCountryMax + 1))}

\* Person payloads that differ from the example in at most one field, and
\* in at most two.
PersonOneOff ==
    {Obj(ExamplePerson)} \cup
    UNION {{Obj([ExamplePerson EXCEPT ![f] = a]) : a \in PersonAlt(f)} :
              f \in Range(PersonFields)}

PersonTwoOff ==
    UNION {{Obj([ExamplePerson EXCEPT ![f] = a, ![g] = b]) :
               a \in PersonAlt(f), b \in PersonAlt(g)} :
              f \in Range(PersonFields), g \in Range(PersonFields)}

LocationOneOff ==
    {Obj(ExampleLocation)} \cup
    UNION {{Obj([ExampleLocation EXCEPT ![f] = a]) : a \in LocationAlt(f)} :
              f \in Range(LocationFields)}

\* A Person payload with nothing right and a Location payload alike.
WrongPerson ==
    Obj([first_name |-> StrV(<<>>), last_name |-> Absent, age |-> IntV(0),
         hair_color |-> StrV(<<"g", "r", "e", "e", "n">>), is_married |-> StrV(<<"m", "a", "y", "b", "e">>),
         personal_website |-> StrV(<<"g", "o", "o", "g", "l", "e", ".", "c", "o", "m">>),
         date_of_birth |-> StrV(<<"2", "0", "2", "7", "-", "0", "1", "-", "0", "1">>), email |-> StrV(<<"m", "a", "i", "l">>),
         password |-> StrV(<<"1", "2", "3", "4">>)])

WrongLocation ==
    Obj([city |-> Absent, state |-> StrV(<<>>), country |-> StrV(<<"U", "S", "A">>)])

\* Texts of the {person_id} path segment.
Segments == {<<"1">>, <<"3">>, <<"5">>, <<"6">>, <<"0">>, <<"-", "1">>, <<"0", "0", "7">>, <<"1", "2", "3">>, <<"9", "9", "9">>, <<"a", "b", "c">>}

\* Uploaded files: the name, the declared content type and the number of
\* bytes file.read() returns.
Upload(filename, content_type, length) ==
    [filename |-> filename, content_type |-> content_type, length |-> length]

Uploads ==
    {Upload(<<"a", ".", "p", "n", "g">>, <<"i", "m", "a", "g", "e", "/", "p", "n", "g">>, 0), Upload(<<"b", ".", "p", "n", "g">>, <<"i", "m", "a", "g", "e", "/", "p", "n", "g">>, 100),
     Upload(<<"c", ".", "j", "p", "g">>, <<"i", "m", "a", "g", "e", "/", "j", "p", "e", "g">>, 128), Upload(<<"d", ".", "j", "p", "g">>, <<"i", "m", "a", "g", "e", "/", "j", "p", "e", "g">>, 1024),
     Upload(<<"e", ".", "g", "i", "f">>, <<"i", "m", "a", "g", "e", "/", "g", "i", "f">>, 1500)}

RECURSIVE SeqsUpTo(_, _)
SeqsUpTo(S, n) ==
    IF n = 0 THEN {<<>>}
    ELSE SeqsUpTo(S, n - 1) \cup
         {Append(s, x) : s \in {u \in SeqsUpTo(S, n - 1) : Len(u) = n - 1},
                         x \in S}

ExampleMessage == Rep("m", MessageMin)

Form2(n1, v1, n2, v2) == [NoForm EXCEPT ![n1] = v1, ![n2] = v2]

ExampleContact ==
    [NoForm EXCEPT !["first_name"] = StrV(<<"D", "a", "n", "i", "e", "l">>),
                   !["last_name"] = StrV(<<"S", "a", "l", "m", "e", "r", "o", "n">>),
                   !["email"] = StrV(<<"m", "a", "i", "l", "@", "s", "a", "l", "m", "e", "r", "o", "n", ".", "c", "o", "m">>),
                   !["message"] = StrV(ExampleMessage)]

ContactAlt(name) ==
    CASE name = "first_name" ->
           {StrV(<<>>), StrV(Rep("a", ContactNameMax + 1)), Absent}
      [] name = "last_name" -> {StrV(Rep("b", ContactNameMax)), Absent}
      [] name = "email" -> {StrV(<<"m", "a", "i", "l">>), StrV(<<"a", "@", "b">>)}
      [] name = "message" ->
           {StrV(Rep("m", MessageMin - 1)), StrV(Rep("m", MessageMax)),
            StrV(Rep("m", MessageMax + 1)), StrV(<<>>)}

ContactTwoOff ==
    UNION {{[ExampleContact EXCEPT ![f] = a, ![g] = b] :
               a \in ContactAlt(f) \cup {ExampleContact[f]},
               b \in ContactAlt(g) \cup {ExampleContact[g]}} :
              f \in Range(ContactForm), g \in Range(ContactForm)}

Usernames ==
    {Absent, StrV(<<>>), StrV(<<"s", "a", "l", "m", "e", "r", "o", "n", "_", "d", "e", "v">>),
     StrV(Rep("u", LoginOutUsernameMax)),
     StrV(Rep("u", LoginOutUsernameMax + 1))}

Passwords == {Absent, StrV(<<"1", "2", "3", "4", "5", "6", "7", "8">>), StrV(<<"p", "w">>)}

\* The requests of the sequential specification: every operation, with
\* payloads around every constraint.
RichRequests ==
    {Request("home")}
    \cup {[Request("create_person") EXCEPT !.person = p] :
            p \in PersonTwoOff \cup {NoObj, WrongPerson}}
    \cup {[Request("show_person_query") EXCEPT !.qname = n, !.qage = a] :
            n \in {Absent, StrV(<<>>), StrV(<<"M", "a", "r", "c", "e", "l">>),
                   StrV(Rep("n", NameMax + 1))},
            a \in {Absent, StrV(<<"2", "1">>), StrV(<<"-", "3">>), StrV(<<"o", "l", "d">>)}}
    \cup {[Request("show_person") EXCEPT !.seg = s] : s \in Segments}
    \cup {[Request("update_person") EXCEPT
              !.seg = s, !.person = p, !.location = l] :
            s \in {<<"1", "2", "3">>, <<"3">>, <<"0">>, <<"a", "b", "c">>},
            p \in PersonOneOff \cup {NoObj, WrongPerson},
            l \in LocationOneOff \cup {NoObj, WrongLocation}}
    \cup {[Request("login") EXCEPT !.form = Form2("username", u, "password", w)] :
            u \in Usernames, w \in Passwords}
    \cup {[Request("contact") EXCEPT !.form = f, !.user_agent = h, !.ads = c] :
            f \in ContactTwoOff \cup {NoForm},
            h \in {Absent, StrV(<<"c", "u", "r", "l", "/", "8">>)},
            c \in {Absent, StrV(<<"y", "e", "s">>)}}
    \cup {[Request("post_image") EXCEPT !.files = fs] :
            fs \in SeqsUpTo(Uploads, MaxFiles)}

\* The requests of the concurrent specification: every operation, with one
\* payload for each of its outcomes.
LeanRequests ==
    {Request("home")}
    \cup {[Request("create_person") EXCEPT !.person = p] :
            p \in {Obj(ExamplePerson), WrongPerson}}
    \cup {[Request("show_person_query") EXCEPT !.qname = n, !.qage = StrV(<<"2", "1">>)] :
            n \in {Absent, StrV(<<>>)}}
    \cup {[Request("show_person") EXCEPT !.seg = s] : s \in {<<"1">>, <<"9", "9", "9">>, <<"0">>}}
    \cup {[Request("update_person") EXCEPT
              !.seg = s, !.person = Obj(ExamplePerson),
              !.location = Obj(ExampleLocation)] : s \in {<<"1", "2", "3">>, <<"0">>}}
    \cup {[Request("login") EXCEPT
              !.form = Form2("username", u, "password", StrV(<<"1", "2", "3", "4", "5", "6", "7", "8">>))] :
            u \in {StrV(<<>>), StrV(<<"s", "a", "l", "m", "e", "r", "o", "n", "_", "d", "e", "v">>),
                   StrV(Rep("u", LoginOutUsernameMax + 1))}}
    \cup {[Request("contact") EXCEPT !.form = f, !.user_agent = StrV(<<"c", "u", "r", "l", "/", "8">>)] :
            f \in {ExampleContact, NoForm}}
    \cup {[Request("post_image") EXCEPT !.files = fs] :
            fs \in SeqsUpTo({Upload(<<"c", ".", "j", "p", "g">>, <<"i", "m", "a", "g", "e", "/", "j", "p", "e", "g">>, 128)}, MaxFiles)}

(* ------------------------------------------------------------------ *)
(* The application                                                     *)
(* ------------------------------------------------------------------ *)

Req == 1..NumReq

VARIABLES
    persons,    \* the module-level list `persons`
    pc,         \* the phase of each request
    request,    \* what each request carries
    args,       \* the arguments bound for each request
    response    \* what each request was answered

vars == <<persons, pc, request, args, response>>

Init ==
    /\ persons = <<1, 2, 3, 4, 5>>
    /\ pc = [r \in Req |-> "idle"]
    /\ request = [r \in Req |-> Request("home")]
    /\ args = [r \in Req |-> NoArgs]
    /\ response = [r \in Req |-> NoResponse]

\* A request arrives and is routed to its path operation.
Receive(r, requests) ==
    /\ pc[r] = "idle"
    /\ \E q \in requests : request' = [request EXCEPT ![r] = q]
    /\ pc' = [pc EXCEPT ![r] = "received"]
    /\ UNCHANGED <<persons, args, response>>

\* The declared parameters are bound.  With a violation the request is
\* answered 422 with every violation and the function is not called.
Bind(r) ==
    /\ pc[r] = "received"
    /\ LET errors == BindErrors(request[r])
       IN  IF errors # <<>>
           THEN /\ response' = [response EXCEPT ![r] =
                       Response(HTTP_422_UNPROCESSABLE, "bind", "errors", errors)]
                /\ pc' = [pc EXCEPT ![r] = "done"]
                /\ UNCHANGED args
           ELSE /\ args' = [args EXCEPT ![r] = BoundArgs(request[r])]
                /\ pc' = [pc EXCEPT ![r] = "bound"]
                /\ UNCHANGED response
    /\ UNCHANGED <<persons, request>>

\* The function of request r is about to be called.
Called(r, ep) == pc[r] = "bound" /\ request[r].ep = ep

\* The function returned (or raised) and the response is on its way.
Answer(r, resp) ==
    /\ response' = [response EXCEPT ![r] = resp]
    /\ pc' = [pc EXCEPT ![r] = "done"]

\* def home(): return {"Hello": "World!"}
home(r) ==
    /\ Called(r, "home")
    /\ Answer(r, Response(HTTP_200_OK, "handler", "map",
                 <<Entry("Hello", StrV(<<"W", "o", "r", "l", "d", "!">>))>>))
    /\ UNCHANGED <<persons, request, args>>

\* def create_person(person): return person
\* with response_model=Person, response_model_exclude={'password'}, 201.
create_person(r) ==
    /\ Called(r, "create_person")
    /\ LET shaped == Shape(args[r].person, PersonFields, {"password"})
       IN  /\ Answer(r, Response(HTTP_201_CREATED, "handler", "map", shaped.out))
           /\ args' = [args EXCEPT ![r].person = shaped.src]
    /\ UNCHANGED <<persons, request>>

\* def show_person(name, age): return {name: age}
show_person_query(r) ==
    /\ Called(r, "show_person_query")
    /\ Answer(r, Response(HTTP_200_OK, "handler", "map",
                 <<Entry(JsonKey(args[r].name), JsonEncode(args[r].age))>>))
    /\ UNCHANGED <<persons, request, args>>

\* `person_id not in persons`
NotInPersonsInverted(person_id, list) == person_id \in Range(list)

NotInPersons(person_id, list) == person_id \notin Range(list)

\* show_person as it would be if it registered the ids it is asked for.
show_person_registering(r) ==
    /\ Called(r, "show_person")
    /\ IF NotInPersons(args[r].person_id, persons)
       THEN /\ Answer(r, [Response(HTTP_404_NOT_FOUND, "handler", "detail", <<>>)
                             EXCEPT !.detail = NotFoundDetail,
                                    !.raised = "HTTPException"])
            /\ persons' = Append(persons, args[r].person_id)
       ELSE /\ Answer(r, Response(HTTP_200_OK, "handler", "map",
                          <<Entry(IntToStr(args[r].person_id), StrV(ExistsMessage))>>))
            /\ UNCHANGED persons
    /\ UNCHANGED <<request, args>>

\* def show_person(person_id): 404 unless person_id is in persons.
show_person(r) ==
    /\ Called(r, "show_person")
    /\ IF NotInPersons(args[r].person_id, persons)
       THEN Answer(r, [Response(HTTP_404_NOT_FOUND, "handler", "detail", <<>>)
                          EXCEPT !.detail = NotFoundDetail,
                                 !.raised = "HTTPException"])
       ELSE Answer(r, Response(HTTP_200_OK, "handler", "map",
                       <<Entry(IntToStr(args[r].person_id), StrV(ExistsMessage))>>))
    /\ UNCHANGED <<persons, request, args>>

\* def update_person(person_id, person, location):
\*     results = dict(person); results.update(dict(location)); return results
update_person(r) ==
    /\ Called(r, "update_person")
    /\ LET results == DictUpdate(Dict(args[r].person, PersonFields),
                                 Dict(args[r].location, LocationFields))
       IN  Answer(r, Response(HTTP_200_OK, "handler", "map", EncodeDict(results)))
    /\ UNCHANGED <<persons, request, args>>

\* def login(username, password): return LoginOut(username=username)
\* The constructor validates: a username that LoginOut refuses raises
\* pydantic's ValidationError out of the function, which answers 500.
login(r) ==
    /\ Called(r, "login")
    /\ LET out == LoginOutUsername(args[r].form["username"])
       IN  IF out.ok
           THEN Answer(r, Response(HTTP_200_OK, "handler", "map",
                           <<Entry("username", JsonEncode(out.v))>>))
           ELSE Answer(r, [Response(HTTP_500_INTERNAL, "handler", "none", <<>>)
                              EXCEPT !.raised = "ValidationError"])
    /\ UNCHANGED <<persons, request, args>>

\* def contact(first_name, last_name, email, message, user_agent, ads):
\*     return user_agent
contact(r) ==
    /\ Called(r, "contact")
    /\ Answer(r, Response(HTTP_200_OK, "handler", "value",
                 <<JsonEncode(args[r].user_agent)>>))
    /\ UNCHANGED <<persons, request, args>>

\* def post_image(images): one entry for each image, in their order.
post_image(r) ==
    /\ Called(r, "post_image")
    /\ Answer(r, Response(HTTP_200_OK, "handler", "list",
                 [i \in 1..Len(args[r].images) |-> ImageInfo(args[r].images[i])]))
    /\ UNCHANGED <<persons, request, args>>

\* The response is sent and the next request may arrive.
Close(r) ==
    /\ pc[r] = "done"
    /\ pc' = [pc EXCEPT ![r] = "idle"]
    /\ request' = [request EXCEPT ![r] = Request("home")]
    /\ args' = [args EXCEPT ![r] = NoArgs]
    /\ response' = [response EXCEPT ![r] = NoResponse]
    /\ UNCHANGED persons

Handle(r) ==
    \/ home(r)
    \/ create_person(r)
    \/ show_person_query(r)
    \/ show_person(r)
    \/ update_person(r)
    \/ login(r)
    \/ contact(r)
    \/ post_image(r)

\* Requests are served concurrently, each in its own task.
Next ==
    \E r \in Req :
        \/ Receive(r, LeanRequests)
        \/ Bind(r)
        \/ Handle(r)
        \/ Close(r)

Spec == Init /\ [][Next]_vars

\* One request at a time, over the wide set of requests.
NextSeq ==
    \/ Receive(1, RichRequests)
    \/ Bind(1)
    \/ Handle(1)
    \/ Close(1)

SpecSeq == Init /\ [][NextSeq]_vars

(* ------------------------------------------------------------------ *)
(* Properties                                                          *)
(* ------------------------------------------------------------------ *)

Last(s) == s[Len(s)]

\* Every field of the payload satisfies the constraints of its model.
PersonSatisfies(obj) ==
    obj.k = "obj" /\ \A name \in Range(PersonFields) : PersonField(name, obj.f[name]).ok

LocationSatisfies(obj) ==
    obj.k = "obj" /\ \A name \in Range(LocationFields) : LocationField(name, obj.f[name]).ok

\* The request was answered by the binding phase with a list of violations.
Refused(r) ==
    /\ pc[r] = "done"
    /\ response[r].status = 422
    /\ response[r].kind = "errors"
    /\ response[r].phase = "bind"

ErrorOn(r, field, kind) ==
    \E i \in 1..Len(response[r].body) :
        /\ Last(response[r].body[i].loc) = field
        /\ response[r].body[i].kind = kind

\* C1: a Person payload that satisfies every field constraint is bound by
\* POST /person/new, answered 201 by the path operation, and the body of
\* the response holds no `password` key.
C1_CreateValidPerson ==
    \A r \in Req :
        (/\ request[r].ep = "create_person"
         /\ pc[r] \in {"bound", "done"}
         /\ PersonSatisfies(request[r].person))
        => /\ pc[r] = "done" =>
                /\ response[r].status = 201
                /\ response[r].phase = "handler"
                /\ response[r].kind = "map"
                /\ ~HasKey(response[r].body, "password")
           /\ pc[r] = "bound" => args[r].person["password"].k = "str"

C1_Witness ==
    \E r \in Req :
        /\ request[r].ep = "create_person"
        /\ PersonSatisfies(request[r].person)
        /\ request[r].person.f["hair_color"].k = "absent"
        /\ pc[r] = "done"
        /\ response[r].status = 201

\* C2: no response to an operation that accepts a Person holds a
\* `password` key.
C2_PasswordNeverOutbound ==
    \A r \in Req :
        (/\ request[r].ep \in {"create_person", "update_person"}
         /\ pc[r] = "done"
         /\ response[r].kind = "map")
        => ~HasKey(response[r].body, "password")

\* C3: a validation error is produced by the binding phase; once the path
\* operation function has started, the request does not end in a validation
\* failure nor in a validation exception escaping the function.
C3_ValidationOnlyWhileBinding ==
    \A r \in Req :
        pc[r] = "done" /\ response[r].phase = "handler"
        => /\ response[r].status # 422
           /\ response[r].raised # "ValidationError"

\* C4: GET /person/detail/{person_id} with an integer person_id > 0 answers
\* 200 exactly when person_id is one of 1..5 and otherwise 404 with the
\* detail "This person does not exist :("; a person_id <= 0 is refused by
\* the binding, and 404 is only answered by the function, after binding.
C4_ShowPerson ==
    \A r \in Req :
        (request[r].ep = "show_person" /\ pc[r] = "done")
        => /\ IsIntLiteral(request[r].seg) =>
                LET id == ParseInt(request[r].seg)
                IN  /\ id > 0 => /\ response[r].status = 200 <=> id \in {1, 2, 3, 4, 5}
                                 /\ id \notin {1, 2, 3, 4, 5} =>
                                      /\ response[r].status = 404
                                      /\ response[r].detail = "This person does not exist :("
                    /\ id <= 0 => Refused(r)
           /\ response[r].status = 404 =>
                /\ response[r].phase = "handler"
                /\ args[r].person_id > 0

C4_Witness ==
    /\ \E r \in Req :
        /\ request[r].ep = "show_person"
        /\ pc[r] = "done"
        /\ request[r].seg = <<"9", "9", "9">>
        /\ response[r].status = 404

\* C5: PUT /person/{person_id} with person_id > 0, a valid Person and a
\* valid Location answers 200 with a map that holds every Person field and
\* every Location field, each with its bound value (`password` too); the
\* two models share no field name, so the merge overwrites nothing.
C5_UpdateMerges ==
    /\ Range(PersonFields) \cap Range(LocationFields) = {}
    /\ \A r \in Req :
        (/\ request[r].ep = "update_person"
         /\ pc[r] = "done"
         /\ IsIntLiteral(request[r].seg)
         /\ ParseInt(request[r].seg) > 0
         /\ PersonSatisfies(request[r].person)
         /\ LocationSatisfies(request[r].location))
        => /\ response[r].status = 200
           /\ response[r].kind = "map"
           /\ Len(response[r].body) = Len(PersonFields) + Len(LocationFields)
           /\ HasKey(response[r].body, "password")
           /\ \A name \in Range(PersonFields) :
                /\ HasKey(response[r].body, name)
                /\ Get(response[r].body, name) = JsonEncode(args[r].person[name])
           /\ \A name \in Range(LocationFields) :
                /\ HasKey(response[r].body, name)
                /\ Get(response[r].body, name) = JsonEncode(args[r].location[name])

C5_Witness ==
    \E r \in Req :
        /\ request[r].ep = "update_person"
        /\ pc[r] = "done"
        /\ request[r].seg = <<"1", "2", "3">>
        /\ PersonSatisfies(request[r].person)
        /\ LocationSatisfies(request[r].location)
        /\ response[r].status = 200
        /\ Get(response[r].body, "password").s = <<"1", "2", "3", "4", "5", "6", "7", "8">>

\* C6: a Person payload whose age is <= 0 or > 115 is refused with a
\* ValueOutOfRange violation on `age`, whatever the other fields are; an
\* age of 1 or of 115 gives no violation on `age`.
C6_AgeBounds ==
    \A r \in Req :
        (/\ request[r].ep \in {"create_person", "update_person"}
         /\ pc[r] \in {"bound", "done"}
         /\ request[r].person.k = "obj"
         /\ request[r].person.f["age"].k = "int")
        => LET age == request[r].person.f["age"].n
           IN  /\ (age <= 0 \/ age > 115) =>
                    /\ pc[r] = "done"
                    /\ Refused(r)
                    /\ ErrorOn(r, "age", "ValueOutOfRange")
               /\ (age \in {1, 115} /\ pc[r] = "done" /\ response[r].kind = "errors") =>
                    \A i \in 1..Len(response[r].body) :
                        Last(response[r].body[i].loc) # "age"

C6_Witness ==
    \E r \in Req :
        /\ request[r].ep = "create_person"
        /\ request[r].person.k = "obj"
        /\ request[r].person.f["age"] = IntV(116)
        /\ ~PersonField("email", request[r].person.f["email"]).ok
        /\ Refused(r)
        /\ ErrorOn(r, "age", "ValueOutOfRange")

\* The violated parameters of a request, each with where it was looked
\* for and the first constraint it fails.
ViolatedPerson(obj, loc) ==
    {Err(loc \o <<name>>, PersonField(name, obj.f[name]).err) :
        name \in {n \in Range(PersonFields) : ~PersonField(n, obj.f[n]).ok}}

ViolatedLocation(obj, loc) ==
    {Err(loc \o <<name>>, LocationField(name, obj.f[name]).err) :
        name \in {n \in Range(LocationFields) : ~LocationField(n, obj.f[n]).ok}}

ViolatedContact(form) ==
    {Err(<<"body", name>>, ContactField(name, form[name]).err) :
        name \in {n \in Range(ContactForm) : ~ContactField(n, form[n]).ok}}

Violated(q) ==
    CASE q.ep = "create_person" -> ViolatedPerson(q.person, <<"body">>)
      [] q.ep = "contact" -> ViolatedContact(q.form)
      [] q.ep = "update_person" ->
           (IF PersonId(q.seg).ok THEN {}
            ELSE {Err(<<"path", "person_id">>, PersonId(q.seg).err)})
             \cup ViolatedPerson(q.person, <<"body", "person">>)
             \cup ViolatedLocation(q.location, <<"body", "location">>)

\* C7: when fields of a request violate their constraints, the request is
\* refused while binding with one list that names every violated field
\* once, with the first constraint that field fails, and the path operation
\* function is not called.
C7_EveryViolationListed ==
    \A r \in Req :
        (/\ request[r].ep \in {"create_person", "contact", "update_person"}
         /\ pc[r] \in {"bound", "done"}
         /\ request[r].person.k = "obj" \/ request[r].ep = "contact"
         /\ request[r].location.k = "obj" \/ request[r].ep # "update_person"
         /\ Violated(request[r]) # {})
        => /\ Refused(r)
           /\ Range(response[r].body) = Violated(request[r])
           /\ Len(response[r].body) = Cardinality(Violated(request[r]))

C7_Witness ==
    \E r \in Req :
        /\ request[r].ep = "contact"
        /\ Refused(r)
        /\ Len(response[r].body) = 2
        /\ response[r].body[1].loc = <<"body", "first_name">>
        /\ response[r].body[2] = Err(<<"body", "message">>, "LengthOutOfRange")

\* Two requests carry the same input.
SameInput(q1, q2) ==
    /\ q1.ep = q2.ep
    /\ q1.person.k = q2.person.k
    /\ q1.location.k = q2.location.k
    /\ q1 = q2

C9_PostImage ==
    \A r \in Req :
        (/\ request[r].ep = "post_image"
         /\ pc[r] = "done"
         /\ Len(request[r].files) >= 1)
        => /\ response[r].status = 200
           /\ response[r].kind = "list"
           /\ Len(response[r].body) = Len(request[r].files)
           /\ \A i \in 1..Len(request[r].files) :
                LET file == request[r].files[i]
                    info == response[r].body[i]
                    d == info.Size * 1024 - file.length * 100
                IN  /\ info.filename = file.filename
                    /\ info.Format = file.content_type
                    /\ 0 - 512 <= d
                    /\ d <= 512

C9_Witness ==
    \E r \in Req :
        /\ request[r].ep = "post_image"
        /\ pc[r] = "done"
        /\ Len(request[r].files) = 2
        /\ request[r].files[1].length = 1500
        /\ request[r].files[2].length = 100
        /\ response[r].body[1].Size = 146
        /\ response[r].body[2].Size = 10

\* C10: the response of POST /person/new holds exactly the fields of Person
\* other than `password`, in the order of their declaration, each with the
\* JSON form of its bound value, and the Person instance the function
\* returned is as it was bound, `password` included.
C10_ShapeExcludesPassword ==
    \A r \in Req :
        (/\ request[r].ep = "create_person"
         /\ pc[r] = "done"
         /\ response[r].phase = "handler")
        => /\ Keys(response[r].body) =
                <<"first_name", "last_name", "age", "hair_color", "is_married",
                  "personal_website", "date_of_birth", "email">>
           /\ \A i \in 1..Len(response[r].body) :
                response[r].body[i].val =
                    JsonEncode(PersonValue(request[r].person)[response[r].body[i].key])
           /\ args[r].person = PersonValue(request[r].person)
           /\ args[r].person["password"].k = "str"
           /\ Len(args[r].person["password"].s) >= 8

C10_Witness ==
    \E r \in Req :
        /\ request[r].ep = "create_person"
        /\ pc[r] = "done"
        /\ response[r].phase = "handler"
        /\ request[r].person.f["date_of_birth"].s = <<"1", "9", "9", "9", "-", "2", "-", "3">>
        /\ Get(response[r].body, "date_of_birth").s =
               <<"1", "9", "9", "9", "-", "0", "2", "-", "0", "3">>
        /\ args[r].person["date_of_birth"].n = 19990203

====
